---- MODULE Spec2Model ----
(***************************************************************************)
(* Model of scripts/crawl_news.py: extraction of one headline per          *)
(* category from a listing page, enrichment from the article page, and    *)
(* the batch write of the day's records to the "news" collection.         *)
(*                                                                         *)
(* Strings are sequences of characters (or of opaque chunks), so that      *)
(* '' is <<>>, truthiness is Len > 0 and + is \o.                          *)
(***************************************************************************)
EXTENDS Integers, Sequences, FiniteSets, TLC

\* ------------------------------------------------------------------ bounds
MaxElems == 3
MaxWords == 5
MaxNodes == 2
MaxNow   == 2
MaxRuns  == 2

\* ----------------------------------------------------------------- strings
EmptyStr == <<>>
None     == [none |-> TRUE]

Truthy(s) == Len(s) > 0

IsSpace(c) == c \in {" ", "\n", "\t"}

RECURSIVE LStrip(_)
LStrip(s) == IF s # <<>> /\ IsSpace(Head(s)) THEN LStrip(Tail(s)) ELSE s

RECURSIVE RStrip(_)
RStrip(s) ==
  IF s # <<>> /\ IsSpace(s[Len(s)]) THEN RStrip(SubSeq(s, 1, Len(s) - 1)) ELSE s

\* str.strip()
Strip(s) == RStrip(LStrip(s))

\* str.startswith('http'): the scheme is carried as the first chunk
StartsWithHttp(s) == Len(s) > 0 /\ s[1] = "http"

\* ' '.join(parts)
RECURSIVE Join(_)
Join(parts) ==
  IF parts = <<>> THEN <<>>
  ELSE IF Len(parts) = 1 THEN parts[1]
  ELSE parts[1] \o <<" ">> \o Join(Tail(parts))

\* ---------------------------------------------------------------- document
\* An element of a parsed page: tag name, class set, classes of its
\* ancestors, attribute dict and text content.
Elem(tag, classes, anc, attrs, text, children) ==
  [tag |-> tag, classes |-> classes, anc |-> anc, attrs |-> attrs, text |-> text,
   children |-> children]

NoAttrs == [a \in {} |-> <<>>]

\* Tag.get(name, '')
Get(e, name) == IF name \in DOMAIN e.attrs THEN e.attrs[name] ELSE EmptyStr

\* Tag.get_text(strip=True) of a leaf element
GetText(e) == Strip(e.text)

\* The CSS selectors used on the listing and article pages
Matches(sel, e) ==
  CASE sel = ".sa_text_title"          -> "sa_text_title" \in e.classes
    [] sel = ".ct_head_wrap a"         -> e.tag = "a" /\ "ct_head_wrap" \in e.anc
    [] sel = ".sa_item a.sa_text_title" ->
         e.tag = "a" /\ "sa_text_title" \in e.classes /\ "sa_item" \in e.anc
    [] sel = "a.sa_text_title"         -> e.tag = "a" /\ "sa_text_title" \in e.classes
    [] sel = ".sa_thumb_inner img"     -> e.tag = "img" /\ "sa_thumb_inner" \in e.anc
    [] sel = ".ct_head_wrap img"       -> e.tag = "img" /\ "ct_head_wrap" \in e.anc
    [] sel = ".media_end_head_top_logo img" ->
         e.tag = "img" /\ "media_end_head_top_logo" \in e.anc
    [] sel = ".media_end_head_journalist_box a" ->
         e.tag = "a" /\ "media_end_head_journalist_box" \in e.anc
    [] sel = "#dic_area"               -> Get(e, "id") = <<"dic_area">>
    [] sel = "#newsct_article"         -> Get(e, "id") = <<"newsct_article">>
    [] sel = ".newsct_article"         -> "newsct_article" \in e.classes
    [] sel = "meta[property=og:image]" ->
         e.tag = "meta" /\ Get(e, "property") = <<"og:image">>
    [] sel = "script, style, .reporter_area, .byline" ->
         \/ e.tag \in {"script", "style"}
         \/ e.classes \cap {"reporter_area", "byline"} # {}
    [] OTHER -> FALSE

\* soup.select(sel): positions of the matching elements, document order
Select(page, sel) == {i \in 1..Len(page) : Matches(sel, page[i])}

Min(S) == CHOOSE m \in S : \A x \in S : m <= x

\* soup.select_one(sel): position of the first match, 0 for None
SelectOne(page, sel) ==
  IF Select(page, sel) = {} THEN 0 ELSE Min(Select(page, sel))

\* The ordered selector chain of extract_headline_news
HeadlinePatterns ==
  <<".sa_text_title", ".ct_head_wrap a", ".sa_item a.sa_text_title", "a.sa_text_title">>

Origin == <<"http", "s://news.naver.com">>

\* headline = select_one(p1); if not headline: headline = select_one(p2); ...
RECURSIVE LocateFrom(_, _)
LocateFrom(page, k) ==
  IF k > Len(HeadlinePatterns) THEN 0
  ELSE IF SelectOne(page, HeadlinePatterns[k]) # 0
       THEN SelectOne(page, HeadlinePatterns[k])
       ELSE LocateFrom(page, k + 1)

LocateHeadlineReversed(page) ==
  IF SelectOne(page, HeadlinePatterns[2]) # 0
  THEN SelectOne(page, HeadlinePatterns[2])
  ELSE LocateFrom(page, 1)

LocateHeadline(page) == LocateFrom(page, 1)

\* link = headline.get('href', ''); prefix the origin unless it starts with http
NormalizeLink(href) == IF ~StartsWithHttp(href) THEN Origin \o href ELSE href

\* img_elem = select_one('.sa_thumb_inner img') or select_one('.ct_head_wrap img')
ListingImage(page) ==
  LET i1  == SelectOne(page, ".sa_thumb_inner img")
      img == IF i1 # 0 THEN i1 ELSE SelectOne(page, ".ct_head_wrap img")
  IN  IF img = 0 THEN EmptyStr
      ELSE IF Truthy(Get(page[img], "data-src")) THEN Get(page[img], "data-src")
      ELSE Get(page[img], "src")

\* extract_headline_news(soup, category_key); raised = an exception was
\* thrown somewhere inside the try block
extract_headline_news(page, category_key, raised) ==
  IF raised THEN None
  ELSE IF LocateHeadline(page) = 0 THEN None
  ELSE LET headline == page[LocateHeadline(page)]
       IN  [title    |-> GetText(headline),
            link     |-> NormalizeLink(Get(headline, "href")),
            imageUrl |-> ListingImage(page),
            source   |-> EmptyStr,
            category |-> category_key]

\* ------------------------------------------------------------- summarizing
MinSentenceLen == 15
MaxSentences   == 3

IsTerminal(c) == c \in {".", "?", "!"}

\* re.sub(r'\s+', ' ', text)
RECURSIVE CollapseSpaces(_)
CollapseSpaces(s) ==
  IF s = <<>> THEN <<>>
  ELSE IF IsSpace(Head(s)) THEN <<" ">> \o CollapseSpaces(LStrip(s))
  ELSE <<Head(s)>> \o CollapseSpaces(Tail(s))

\* re.split(r'(?<=[.?!])\s+', text): cut at each whitespace run that
\* directly follows a terminal mark; cur is the piece being collected
RECURSIVE SplitFrom(_, _)
SplitFrom(s, cur) ==
  IF s = <<>> THEN <<cur>>
  ELSE IF IsSpace(Head(s)) /\ cur # <<>> /\ IsTerminal(cur[Len(cur)])
       THEN <<cur>> \o SplitFrom(LStrip(s), <<>>)
       ELSE SplitFrom(Tail(s), Append(cur, Head(s)))

SplitSentences(text) == SplitFrom(text, <<>>)

\* len(s.strip()) > 15
Qualifies(s) == Len(Strip(s)) > MinSentenceLen

StripAll(ss) == [i \in 1..Len(ss) |-> Strip(ss[i])]

Take(ss, n) == SubSeq(ss, 1, IF Len(ss) < n THEN Len(ss) ELSE n)

\* [s.strip() for s in sentences if len(s.strip()) > 15][:3]
KeepSentencesSliceFirst(sentences) ==
  StripAll(SelectSeq(Take(sentences, MaxSentences), Qualifies))

KeepSentences(sentences) ==
  Take(StripAll(SelectSeq(sentences, Qualifies)), MaxSentences)

\* lines 158-163: collapse, split, filter, join
Summarize(text) == Join(KeepSentences(SplitSentences(CollapseSpaces(text))))

\* -------------------------------------------------------------- enrichment
\* article_body.get_text(separator=' ', strip=True) after decomposing the
\* noise children: the stripped non-empty strings joined by one space
RECURSIVE DropEmpty(_)
DropEmpty(ss) ==
  IF ss = <<>> THEN <<>>
  ELSE IF Head(ss) = <<>> THEN DropEmpty(Tail(ss))
  ELSE <<Head(ss)>> \o DropEmpty(Tail(ss))

IsNoise(e) == Matches("script, style, .reporter_area, .byline", e)
NotNoise(e) == ~IsNoise(e)

BodyText(body) ==
  LET kept == SelectSeq(body.children, NotNoise)
  IN  Join(DropEmpty(<<Strip(body.text)>> \o [i \in 1..Len(kept) |-> Strip(kept[i].text)]))

\* soup.select_one('#dic_area') or select_one('#newsct_article') or
\* select_one('.newsct_article')
ArticleBody(page) ==
  IF SelectOne(page, "#dic_area") # 0 THEN SelectOne(page, "#dic_area")
  ELSE IF SelectOne(page, "#newsct_article") # 0 THEN SelectOne(page, "#newsct_article")
  ELSE SelectOne(page, ".newsct_article")

\* lines 136-143: logo alt or title, else the journalist box link's text
ArticleSource(page) ==
  LET logo == SelectOne(page, ".media_end_head_top_logo img")
      s1   == IF logo = 0 THEN EmptyStr
              ELSE IF Truthy(Get(page[logo], "alt")) THEN Get(page[logo], "alt")
              ELSE Get(page[logo], "title")
      box  == SelectOne(page, ".media_end_head_journalist_box a")
  IN  IF Truthy(s1) THEN s1
      ELSE IF box # 0 THEN GetText(page[box])
      ELSE s1

\* lines 146-163
ArticleSummary(page) ==
  IF ArticleBody(page) = 0 THEN EmptyStr
  ELSE Summarize(BodyText(page[ArticleBody(page)]))

\* lines 166-168
ArticleImageBodyFallback(page) ==
  LET og   == SelectOne(page, "meta[property=og:image]")
      b    == ArticleBody(page)
      imgs == IF b = 0 THEN {}
              ELSE {i \in 1..Len(page[b].children) : page[b].children[i].tag = "img"}
      img  == page[b].children[Min(imgs)]
  IN  IF og # 0 THEN Get(page[og], "content")
      ELSE IF imgs = {} THEN EmptyStr
      ELSE IF Truthy(Get(img, "data-src")) THEN Get(img, "data-src")
      ELSE Get(img, "src")

ArticleImage(page) ==
  LET og == SelectOne(page, "meta[property=og:image]")
  IN  IF og = 0 THEN EmptyStr ELSE Get(page[og], "content")

EmptyResult == [summary |-> EmptyStr, imageUrl |-> EmptyStr, source |-> EmptyStr]

FailPoints == {"none", "fetch", "parse", "source", "body", "image"}

\* fetch_article_details(url): page is what the URL serves, failAt the step
\* of the try block in which an exception is raised ("none": no exception).
\* result is filled in place, so the except branch returns what was set
\* before the failing step.
fetch_article_details(page, failAt) ==
  LET r1 == [EmptyResult EXCEPT !.source = ArticleSource(page)]
      r2 == [r1 EXCEPT !.summary = ArticleSummary(page)]
      r3 == [r2 EXCEPT !.imageUrl = ArticleImage(page)]
  IN  CASE failAt \in {"fetch", "parse", "source"} -> EmptyResult
        [] failAt = "body"  -> r1
        [] failAt = "image" -> r2
        [] OTHER -> r3

\* ---------------------------------------------------------------- pipeline
\* CATEGORIES, in dict order
CategoryKeys == <<"economy", "realestate", "stock", "it">>

\* the fixed default label of line 192 ("Naver News" in Korean)
DefaultSource == <<"Naver News">>

\* init_firebase(): "client" or "raise" (json.loads / Certificate /
\* ValueError), decided by the environment
init_firebase(env) ==
  IF env.service_account # "unset"
  THEN IF env.service_account = "valid" THEN "client" ELSE "raise"
  ELSE IF env.cred_file_exists THEN "client" ELSE "raise"

\* fetch_page(url): None on requests.RequestException
fetch_page(resp) == IF resp.failed THEN None ELSE [soup |-> resp.body]

\* crawl_category_news after a successful extraction: lines 188-202
Assemble(news, details, t1, t2) ==
  LET enriched ==
        IF Truthy(news.link)
        THEN [title    |-> news.title,
              link     |-> news.link,
              category |-> news.category,
              summary  |-> IF Truthy(details.summary) THEN details.summary ELSE news.title,
              source   |-> IF Truthy(details.source) THEN details.source ELSE DefaultSource,
              imageUrl |-> IF Truthy(details.imageUrl) THEN details.imageUrl
                           ELSE news.imageUrl]
        ELSE news
  IN  enriched @@ [date |-> t1, createdAt |-> t2]

\* crawl_category_news(category_key, category_info): resp is what the
\* listing URL serves, raised / article / failAt the inputs of the two
\* extraction stages, t1 and t2 the two readings of datetime.now()
crawl_category_news(category_key, resp, raised, article, failAt, t1, t2) ==
  IF fetch_page(resp) = None THEN None
  ELSE IF extract_headline_news(resp.body, category_key, raised) = None THEN None
  ELSE Assemble(extract_headline_news(resp.body, category_key, raised),
                fetch_article_details(article, failAt), t1, t2)

\* datetime.now().strftime('%Y-%m-%d'): the calendar day of an instant
\* (two instants per day)
CalendarDay(t) == t \div 2

\* doc_id = f"{today}_{news['category']}"
DocIdDayOnly(today, category) == <<today, "_">>

DocId(today, category) == <<today, "_", category>>

\* batch.set(doc_ref, news) for each record, in list order: the staged
\* writes as (id, data) pairs
RECURSIVE StageAll(_, _)
StageAll(news_list_, today) ==
  IF news_list_ = <<>> THEN <<>>
  ELSE <<[id |-> DocId(today, Head(news_list_).category), data |-> Head(news_list_)]>>
       \o StageAll(Tail(news_list_), today)

\* a set() without merge replaces the document
RECURSIVE ApplyWrites(_, _)
ApplyWrites(st, writes) ==
  IF writes = <<>> THEN st
  ELSE ApplyWrites((Head(writes).id :> Head(writes).data) @@ st, Tail(writes))

\* save_to_firestore(db, news_list): the collection after the call; the
\* batch commits as a whole (commitOk) or raises and changes nothing
save_to_firestore_unbatched(st, news_list_, t, commitOk) ==
  IF commitOk THEN ApplyWrites(st, StageAll(news_list_, CalendarDay(t)))
  ELSE ApplyWrites(st, Take(StageAll(news_list_, CalendarDay(t)), 1))

save_to_firestore(st, news_list_, t, commitOk) ==
  IF commitOk THEN ApplyWrites(st, StageAll(news_list_, CalendarDay(t)))
  ELSE st

\* ------------------------------------------------------------------ inputs
SeqsUpTo(S, n) == UNION {[1..k -> S] : k \in 0..n}

Attr1(n, v) == [a \in {n} |-> v]
Attr2(n1, v1, n2, v2) == [a \in {n1, n2} |-> IF a = n1 THEN v1 ELSE v2]

RelHref == <<"/article/1">>
AbsHref == <<"http", "s://n.news.naver.com/article/2">>

StrongTitle == Elem("strong", {"sa_text_title"}, {"sa_item"}, NoAttrs, <<" ", "T", "1", " ">>, <<>>)
AnchorTitle == Elem("a", {"sa_text_title"}, {"sa_item"}, Attr1("href", RelHref), <<"T", "2">>, <<>>)
HeadAnchor  == Elem("a", {}, {"ct_head_wrap"}, Attr1("href", AbsHref), <<"T", "3">>, <<>>)
EmptyHref   == Elem("a", {"sa_text_title"}, {}, Attr1("href", EmptyStr), <<"T", "4">>, <<>>)
PlainAnchor == Elem("a", {}, {}, Attr1("href", RelHref), <<"T", "5">>, <<>>)
LazyThumb   == Elem("img", {}, {"sa_thumb_inner"},
                    Attr2("data-src", <<"lazy.png">>, "src", <<"blank.gif">>), <<>>, <<>>)
HeadImg     == Elem("img", {}, {"ct_head_wrap"}, Attr1("src", <<"head.png">>), <<>>, <<>>)

ListingElems ==
  {StrongTitle, AnchorTitle, HeadAnchor, EmptyHref, PlainAnchor, LazyThumb, HeadImg}

ListingPages == SeqsUpTo(ListingElems, MaxElems)

\* body texts: words of 2, 3, 15 and 16 characters, numbered by position
Fill(n) == [j \in 1..n |-> "x"]

Word(kind, i) ==
  CASE kind = "s"  -> <<ToString(i), "b">>
    [] kind = "s." -> <<ToString(i), "b", ".">>
    [] kind = "m?" -> <<ToString(i)>> \o Fill(13) \o <<"?">>
    [] kind = "l!" -> <<ToString(i)>> \o Fill(14) \o <<"!">>

WordKinds == {"s", "s.", "m?", "l!"}
Gaps      == {<<" ">>, <<" ", "\n">>}

RECURSIVE TextFrom(_, _, _)
TextFrom(kinds, gap, i) ==
  IF i > Len(kinds) THEN <<>>
  ELSE IF i = Len(kinds) THEN Word(kinds[i], i)
  ELSE Word(kinds[i], i) \o gap \o TextFrom(kinds, gap, i + 1)

BodyTexts == {TextFrom(ks, g, 1) : ks \in SeqsUpTo(WordKinds, MaxWords), g \in Gaps}

\* article pages
LogoAlt    == Elem("img", {}, {"media_end_head_top_logo"}, Attr1("alt", <<"ACME">>), <<>>, <<>>)
LogoTitle  == Elem("img", {}, {"media_end_head_top_logo"},
                   Attr2("alt", EmptyStr, "title", <<"Daily">>), <<>>, <<>>)
LogoBare   == Elem("img", {}, {"media_end_head_top_logo"}, NoAttrs, <<>>, <<>>)
Journalist == Elem("a", {}, {"media_end_head_journalist_box"}, NoAttrs, <<" ", "K", "i", "m">>, <<>>)
OgImage    == Elem("meta", {}, {}, Attr2("property", <<"og:image">>, "content", <<"og.png">>), <<>>, <<>>)
OgNoContent == Elem("meta", {}, {}, Attr1("property", <<"og:image">>), <<>>, <<>>)

Para      == Elem("p", {}, {}, NoAttrs, Word("l!", 1) \o <<" ">>, <<>>)
ShortPara == Elem("p", {}, {}, NoAttrs, <<" ">> \o Word("s.", 2), <<>>)
Script    == Elem("script", {}, {}, NoAttrs, Word("l!", 3), <<>>)
Byline    == Elem("div", {"byline"}, {}, NoAttrs, Word("l!", 4), <<>>)
LazyImg   == Elem("img", {}, {}, Attr2("data-src", <<"body-lazy.png">>, "src", <<"blank.gif">>), <<>>, <<>>)
SrcImg    == Elem("img", {}, {}, Attr1("src", <<"body.png">>), <<>>, <<>>)

BodyChildren == {Para, ShortPara, Script, Byline, LazyImg, SrcImg}

Bodies ==
  {Elem("div", {}, {}, Attr1("id", <<"dic_area">>), <<>>, ch) : ch \in SeqsUpTo(BodyChildren, MaxNodes)}
  \cup
  {Elem("article", {"newsct_article"}, {}, NoAttrs, <<>>, ch) : ch \in SeqsUpTo(BodyChildren, MaxNodes)}

Opt(S) == {<<>>} \cup {<<e>> : e \in S}

ArticlePages ==
  {l \o j \o b \o m : l \in Opt({LogoAlt, LogoTitle, LogoBare}), j \in Opt({Journalist}),
                      b \in Opt(Bodies), m \in Opt({OgImage, OgNoContent})}

\* what the pipeline is run against
FetchFailed == [failed |-> TRUE, body |-> <<>>]
Served(page) == [failed |-> FALSE, body |-> page]

ListingResponses ==
  {FetchFailed, Served(<<PlainAnchor>>), Served(<<AnchorTitle, LazyThumb>>)}

EnrichedArticle == <<LogoAlt, Elem("div", {}, {}, Attr1("id", <<"dic_area">>), <<>>, <<Para>>), OgImage>>

\* the pipeline is run against one article page; the failures of the
\* enrichment are explored on fetch_article_details alone (SpecEnrich)
ArticleInputs ==
  {[page |-> EnrichedArticle, failAt |-> "none"]}

CredEnvs ==
  [service_account : {"unset", "valid", "invalid"}, cred_file_exists : BOOLEAN]

\* ------------------------------------------------------------------- state
VARIABLES
  pc,        \* where main() is: "start", "crawl", "done", "aborted", "crashed"
  db,        \* outcome of init_firebase in this run: "none", "client", "raise"
  runs,      \* invocations of the script so far
  now,       \* the wall clock: the instant, in half days
  idx,       \* position of the for loop in CATEGORIES
  news_list, \* main's news_list
  store,     \* the "news" collection: document id -> document
  store0,    \* the collection when the current run started
  fetched,   \* pages requested in the current run
  yielded,   \* categories whose listing stage gave a candidate, this run
  commits,   \* batch commits attempted in the current run
  committed, \* outcome of the last commit: "none", "ok", "rejected"
  latest,    \* id -> the record most recently committed under it
  arg, ret, step   \* input, output and progress of a function under test

vars == <<pc, db, runs, now, idx, news_list, store, store0, fetched, yielded,
          commits, committed, latest, arg, ret, step>>

pipeVars == <<pc, db, runs, now, idx, news_list, store, store0, fetched, yielded,
              commits, committed, latest>>
fnVars   == <<arg, ret, step>>

EmptyStore == [id \in {} |-> None]

PipeInit ==
  /\ pc = "start" /\ db = "none" /\ runs = 0 /\ now = 0 /\ idx = 1 /\ news_list = <<>>
  /\ store = EmptyStore /\ store0 = EmptyStore /\ fetched = {} /\ yielded = {}
  /\ commits = 0 /\ committed = "none" /\ latest = EmptyStore

FnIdle == arg = None /\ ret = None /\ step = "off"

\* main(), lines 222-233: connect or give up
MainInitNoReturn(env) ==
  /\ pc = "start"
  /\ pc' = "crawl"
  /\ db' = init_firebase(env)
  /\ idx' = 1 /\ news_list' = <<>>
  /\ UNCHANGED <<runs, now, store, store0, fetched, yielded, commits, committed, latest>>

MainInit(env) ==
  /\ pc = "start"
  /\ pc' = IF init_firebase(env) = "raise" THEN "aborted" ELSE "crawl"
  /\ db' = init_firebase(env)
  /\ idx' = 1 /\ news_list' = <<>>
  /\ UNCHANGED <<runs, now, store, store0, fetched, yielded, commits, committed, latest>>

Later(t) == {u \in {t, t + 1} : u <= MaxNow}

\* one iteration of the for loop, lines 234-237
CrawlCategoryStops(resp, raised, art, t2) ==
  /\ pc = "crawl" /\ idx <= Len(CategoryKeys)
  /\ LET key   == CategoryKeys[idx]
         cand  == IF resp.failed THEN None
                  ELSE extract_headline_news(resp.body, key, raised)
         news  == crawl_category_news(key, resp, raised, art.page, art.failAt, now, t2)
     IN  /\ news_list' = IF news # None THEN Append(news_list, news) ELSE news_list
         /\ fetched' = fetched \cup {<<"listing", key>>}
                       \cup (IF cand # None THEN {<<"article", key>>} ELSE {})
         /\ yielded' = IF cand # None THEN yielded \cup {key} ELSE yielded
         /\ now' = IF news # None THEN t2 ELSE now
  /\ idx' = IF crawl_category_news(CategoryKeys[idx], resp, raised, art.page, art.failAt, now, t2) = None
            THEN Len(CategoryKeys) + 1 ELSE idx + 1
  /\ UNCHANGED <<pc, db, runs, store, store0, commits, committed, latest>>

CrawlCategory(resp, raised, art, t2) ==
  /\ pc = "crawl" /\ idx <= Len(CategoryKeys)
  /\ LET key   == CategoryKeys[idx]
         cand  == IF resp.failed THEN None
                  ELSE extract_headline_news(resp.body, key, raised)
         news  == crawl_category_news(key, resp, raised, art.page, art.failAt, now, t2)
     IN  /\ news_list' = IF news # None THEN Append(news_list, news) ELSE news_list
         /\ fetched' = fetched \cup {<<"listing", key>>}
                       \cup (IF cand # None THEN {<<"article", key>>} ELSE {})
         /\ yielded' = IF cand # None THEN yielded \cup {key} ELSE yielded
         /\ now' = IF news # None THEN t2 ELSE now
  /\ idx' = idx + 1
  /\ UNCHANGED <<pc, db, runs, store, store0, commits, committed, latest>>

\* lines 239-245: one batch for the run, or nothing to save
Save(commitOk, t) ==
  /\ pc = "crawl" /\ idx > Len(CategoryKeys)
  /\ IF news_list # <<>>
     THEN /\ now' = t
          /\ store' = save_to_firestore(store, news_list, t, commitOk)
          /\ commits' = commits + 1
          /\ committed' = IF commitOk THEN "ok" ELSE "rejected"
          /\ pc' = IF commitOk THEN "done" ELSE "crashed"
          /\ latest' = IF commitOk
                       THEN [id \in DOMAIN latest \cup
                                    {<<CalendarDay(t), "_", news_list[i].category>> :
                                       i \in 1..Len(news_list)} |->
                               IF \E i \in 1..Len(news_list) :
                                    id = <<CalendarDay(t), "_", news_list[i].category>>
                               THEN news_list[CHOOSE i \in 1..Len(news_list) :
                                    id = <<CalendarDay(t), "_", news_list[i].category>>]
                               ELSE latest[id]]
                       ELSE latest
     ELSE /\ pc' = "done"
          /\ UNCHANGED <<now, store, commits, committed, latest>>
  /\ UNCHANGED <<db, runs, idx, news_list, store0, fetched, yielded>>

\* the scheduler starts the script again, later
NextRun ==
  /\ pc \in {"done", "aborted", "crashed"} /\ now < MaxNow /\ runs + 1 < MaxRuns
  /\ pc' = "start" /\ db' = "none" /\ runs' = runs + 1 /\ now' = now + 1
  /\ idx' = 1 /\ news_list' = <<>> /\ store0' = store
  /\ fetched' = {} /\ yielded' = {} /\ commits' = 0 /\ committed' = "none"
  /\ UNCHANGED <<store, latest>>

Init == PipeInit /\ FnIdle

Next ==
  \/ (\E env \in CredEnvs : MainInit(env)) /\ UNCHANGED fnVars
  \/ (\E resp \in ListingResponses, raised \in BOOLEAN, art \in ArticleInputs,
         t2 \in Later(now) : CrawlCategory(resp, raised, art, t2)) /\ UNCHANGED fnVars
  \/ (\E commitOk \in BOOLEAN, t \in Later(now) : Save(commitOk, t)) /\ UNCHANGED fnVars
  \/ NextRun /\ UNCHANGED fnVars

Spec == Init /\ [][Next]_vars

\* ------------------------------------------------- functions on their own
\* extract_headline_news on every listing page of the bound
ExtractInit ==
  /\ PipeInit
  /\ arg \in [page : ListingPages, category_key : {"economy"}, raised : BOOLEAN]
  /\ ret = None /\ step = "ready"

\* lines 80-100: the selector chain
LocateStep ==
  /\ step = "ready"
  /\ ret' = [headline |-> LocateHeadline(arg.page), news |-> None]
  /\ step' = "located"
  /\ UNCHANGED <<arg, pipeVars>>

\* the whole of extract_headline_news
ExtractStep ==
  /\ step = "located"
  /\ ret' = [ret EXCEPT !.news = extract_headline_news(arg.page, arg.category_key, arg.raised)]
  /\ step' = "done"
  /\ UNCHANGED <<arg, pipeVars>>

SpecExtract == ExtractInit /\ [][LocateStep \/ ExtractStep]_vars

\* the summary of every body text of the bound
SummInit ==
  /\ PipeInit
  /\ arg \in [text : BodyTexts]
  /\ ret = None /\ step = "ready"

SummarizeStep ==
  /\ step = "ready"
  /\ ret' = [units   |-> SplitSentences(CollapseSpaces(arg.text)),
             summary |-> Summarize(arg.text)]
  /\ step' = "done"
  /\ UNCHANGED <<arg, pipeVars>>

SpecSumm == SummInit /\ [][SummarizeStep]_vars

\* fetch_article_details on every article page of the bound
EnrichInit ==
  /\ PipeInit
  /\ arg \in [page : ArticlePages, failAt : FailPoints]
  /\ ret = None /\ step = "ready"

EnrichStep ==
  /\ step = "ready"
  /\ ret' = fetch_article_details(arg.page, arg.failAt)
  /\ step' = "done"
  /\ UNCHANGED <<arg, pipeVars>>

SpecEnrich == EnrichInit /\ [][EnrichStep]_vars

\* ------------------------------------------------------------------ claims
Cats(list) == {list[i].category : i \in 1..Len(list)}

\* C1: save_to_firestore writes the whole batch or nothing; a rejected
\* commit leaves the collection exactly as it was before the call.
BatchAllOrNothing ==
  [][commits' = commits + 1 =>
       /\ committed' = "rejected" => store' = store
       /\ \/ store' = store
          \/ \A i \in 1..Len(news_list) :
               /\ <<CalendarDay(now'), "_", news_list[i].category>> \in DOMAIN store'
               /\ store'[<<CalendarDay(now'), "_", news_list[i].category>>] = news_list[i]]_vars

RejectedCommitSeen ==
  pc = "crashed" /\ committed = "rejected" /\ Len(news_list) >= 2 /\ store = store0

\* C2: the collection holds one document per (day of the write, category)
\* for which a run committed a record, under the id <<day, "_", category>>,
\* and that document is exactly the record of the latest such commit.
OneDocPerDayCategory ==
  /\ DOMAIN store = DOMAIN latest
  /\ \A id \in DOMAIN store :
       /\ Len(id) = 3 /\ id[2] = "_" /\ id[3] = store[id].category
       /\ store[id] = latest[id]
       /\ DOMAIN store[id] = DOMAIN latest[id]

OverwriteSeen ==
  /\ pc = "done" /\ committed = "ok" /\ runs = 1
  /\ \E id \in DOMAIN store0 : store[id] # store0[id]

\* C3: the batch of a run holds exactly one record per category whose
\* listing stage gave a candidate and none for the others; every category
\* is processed, there is at most one commit, and the documents of skipped
\* categories are left as they were.
BatchIsYieldedCategories ==
  [][(pc = "crawl" /\ pc' \in {"done", "crashed"}) =>
       /\ Cats(news_list) = yielded
       /\ Len(news_list) = Cardinality(yielded)
       /\ \A k \in 1..Len(CategoryKeys) : <<"listing", CategoryKeys[k]>> \in fetched
       /\ commits' <= 1
       /\ commits' = 1 <=> yielded # {}
       /\ \A id \in DOMAIN store :
            id[3] \notin yielded => id \in DOMAIN store' /\ store'[id] = store[id]
       /\ \A id \in DOMAIN store' \ DOMAIN store : id[3] \in yielded]_vars

ThreeOfFourCommitted ==
  /\ pc = "done" /\ committed = "ok"
  /\ Len(news_list) = 3 /\ yielded = {"economy", "realestate", "it"}
  /\ \E id \in DOMAIN store0 : id[3] = "stock" /\ store[id] = store0[id]

\* C4: when the article fetch or any later step of fetch_article_details
\* fails, the result is the all-empty one.
FailedEnrichmentIsEmpty ==
  (step = "done" /\ arg.failAt # "none") => ret = EmptyResult

\* C5: a located headline element without a link makes
\* extract_headline_news return None.
NoLinkIsNotFound ==
  (step = "done" /\ ret.headline # 0 /\ ~Truthy(Get(arg.page[ret.headline], "href")))
    => ret.news = None

\* C6: the headline is the first element, in document order, of the first
\* pattern of the chain that matches anything; it is None exactly when no
\* pattern matches.
Hits(page) ==
  {k \in 1..Len(HeadlinePatterns) :
     \E i \in 1..Len(page) : Matches(HeadlinePatterns[k], page[i])}

LocateFirstPatternFirstMatch ==
  step \in {"located", "done"} =>
    LET page == arg.page
    IN  /\ ret.headline = 0 <=> Hits(page) = {}
        /\ ret.headline # 0 =>
             \E k \in Hits(page) :
               /\ \A j \in Hits(page) : k <= j
               /\ Matches(HeadlinePatterns[k], page[ret.headline])
               /\ \A i \in 1..(ret.headline - 1) : ~Matches(HeadlinePatterns[k], page[i])

EarlierPatternWins ==
  /\ step = "located"
  /\ Select(arg.page, HeadlinePatterns[1]) # {}
  /\ Select(arg.page, HeadlinePatterns[2]) # {}
  /\ Min(Select(arg.page, HeadlinePatterns[2])) < Min(Select(arg.page, HeadlinePatterns[1]))
  /\ ret.headline = Min(Select(arg.page, HeadlinePatterns[1]))

\* C7: the summary is the first min(3, n) units longer than the threshold,
\* in their order, joined by single spaces; shorter units are dropped and
\* do not count toward the three.
Passing(units) == {i \in 1..Len(units) : Len(Strip(units[i])) > MinSentenceLen}

FirstThree(units) ==
  {i \in Passing(units) : Cardinality({j \in Passing(units) : j < i}) < 3}

Nth(S, k) == CHOOSE i \in S : Cardinality({j \in S : j < i}) = k - 1

RECURSIVE TotalLen(_, _)
TotalLen(units, S) ==
  IF S = {} THEN 0
  ELSE LET i == CHOOSE x \in S : TRUE
       IN  Len(Strip(units[i])) + TotalLen(units, S \ {i})

SummaryIsFirstThreeQualifying ==
  step = "done" =>
    LET F == FirstThree(ret.units)
    IN  /\ Cardinality(F) = (IF Cardinality(Passing(ret.units)) < 3
                             THEN Cardinality(Passing(ret.units)) ELSE 3)
        /\ ret.summary = Join([k \in 1..Cardinality(F) |-> Strip(ret.units[Nth(F, k)])])
        /\ Len(ret.summary) =
             TotalLen(ret.units, F) + (IF F = {} THEN 0 ELSE Cardinality(F) - 1)

TwoShortThenThree ==
  /\ step = "done" /\ Len(ret.units) = 5
  /\ Len(ret.units[1]) <= 10 /\ Len(ret.units[2]) <= 10
  /\ Passing(ret.units) = {3, 4, 5}
  /\ ret.summary = ret.units[3] \o <<" ">> \o ret.units[4] \o <<" ">> \o ret.units[5]

\* C8: a run in which init_firebase fails stops there: no page is fetched
\* and the collection is unchanged.
AuthFailureAborts ==
  db = "raise" => pc = "aborted" /\ fetched = {} /\ commits = 0 /\ store = store0

AbortedWithStoredNews ==
  pc = "aborted" /\ db = "raise" /\ runs = 1 /\ DOMAIN store # {}

\* C9 as stated: the enrichment image is the og:image content when the tag
\* is present, else the first image of the article body (lazy-load
\* attribute first), and empty only when neither exists.
BodyImgs(page) ==
  IF ArticleBody(page) = 0 THEN <<>>
  ELSE SelectSeq(page[ArticleBody(page)].children, LAMBDA e : e.tag = "img")

OgTags(page) ==
  {i \in 1..Len(page) : page[i].tag = "meta" /\ Get(page[i], "property") = <<"og:image">>}

DateMatchesIdentity ==
  \A id \in DOMAIN store : CalendarDay(store[id].date) = id[1]

====
